---- MODULE Spec2Model ----
(***************************************************************************)
(* A model of isengard2's fingerprint store (_db.py), of its target        *)
(* identity resolution and of its target handlers' cook, clean,            *)
(* compute_fingerprint and need_rebuild over a filesystem (_target.py).    *)
(*                                                                         *)
(* Strings of the program are sequences of one-character strings, so that  *)
(* endswith, str.format and pathlib's join are computed, not assumed.      *)
(***************************************************************************)
EXTENDS Integers, Sequences, FiniteSets, TLC

VARIABLES
    file,       \* the store's backing file at `path`, as left on disk
    db,         \* the DB object of the running `with DB.connect(path)` block
    openCons,   \* sqlite connections opened and not closed
    outcome,    \* what the last store call returned or raised
    lastSet,    \* history: id -> fingerprint last passed to set_fingerprint in this session
    durable,    \* history: id -> fingerprint last set without error in a session that exited normally
    sessions,   \* DB.connect calls made so far
    bundle,     \* outcome of TargetHandlersBundle(target_handlers, default_target_handler)
    call,       \* the resolve call in progress and what it returned or raised
    follow,     \* what get_handler / cook_target / a second resolve made of that result
    disk,       \* path -> what the filesystem holds there
    subject,    \* the target of the running build: its handler, identity and cooked value
    taken,      \* the fingerprint the build recorded last, and the disk it was computed on
    last        \* what the last handler call on the target was given and returned or raised

storeVars == <<file, db, openCons, outcome, lastSet, durable, sessions>>
targetVars == <<bundle, call, follow>>
buildVars == <<disk, subject, taken, last>>
vars == <<file, db, openCons, outcome, lastSet, durable, sessions, bundle, call, follow,
          disk, subject, taken, last>>

None == "None"

(***************************************************************************)
(* _db.py                                                                  *)
(***************************************************************************)

DB_VERSION == 1
VERSION_MAGIC_NUMBER == 76388

\* Bound of the store model: DB.connect calls in one behaviour.
MaxSessions == 3

\* Resolved identities and fingerprint blobs handed to the store.
Ids == {"a#", "b#"}
Fingerprints == {"fp1", "fp2"}

NoTable == [exists |-> FALSE, unique |-> {}, required |-> {}, rows |-> <<>>]
NoVersion == [exists |-> FALSE, rows |-> {}]

\* CREATE TABLE version(magic INT NOT NULL UNIQUE DEFAULT 76388, value INT NOT NULL)
SQL_CREATE_VERSION_TABLE(v) == IF v.exists THEN v ELSE [exists |-> TRUE, rows |-> {}]

\* CREATE TABLE targets(_id SERIAL PRIMARY KEY, id text NOT NULL, rule rule NOT NULL,
\* fingerprint BLOB NOT NULL): the only key is _id, and id, rule and fingerprint
\* must each be given a value.
SQL_CREATE_TARGETS_TABLE(t) ==
    IF t.exists THEN t
    ELSE [exists |-> TRUE, unique |-> {"_id"},
          required |-> {"id", "rule", "fingerprint"}, rows |-> <<>>]

\* INSERT INTO version(value) VALUES(?): magic takes its default.
SQL_INIT_VERSION_ROW(v, value) ==
    [v EXCEPT !.rows = @ \cup {[magic |-> VERSION_MAGIC_NUMBER, value |-> value]}]

\* SELECT value FROM version WHERE magic = 76388, then `x, = cur.fetchone()`.
\* An absent table is sqlite's OperationalError; no row makes fetchone() return
\* None, whose unpacking is a TypeError; a file that is no database is sqlite's
\* DatabaseError, which is not an OperationalError.
SQL_FETCH_VERSION_ROW(f) ==
    IF f.kind = "corrupt" THEN [status |-> "DatabaseError", value |-> 0]
    ELSE IF ~f.version.exists THEN [status |-> "OperationalError", value |-> 0]
    ELSE LET hit == {r \in f.version.rows : r.magic = VERSION_MAGIC_NUMBER}
         IN IF hit = {} THEN [status |-> "TypeError", value |-> 0]
            ELSE [status |-> "ok", value |-> (CHOOSE r \in hit : TRUE).value]

EmptyDbFile == [kind |-> "db", version |-> NoVersion, targets |-> NoTable]
AbsentFile == [kind |-> "absent", version |-> NoVersion, targets |-> NoTable]

\* sqlite3.connect(path): creates the file when it is absent, fails with
\* OperationalError when the path cannot be opened.
sqlite3_connect(f) ==
    IF f.kind = "unopenable" THEN [status |-> "OperationalError", file |-> f]
    ELSE [status |-> "ok", file |-> IF f.kind = "absent" THEN EmptyDbFile ELSE f]

\* The store a reset leaves behind: lines 69-73, committed by `with con`.
FreshStore ==
    [kind |-> "db",
     version |-> SQL_INIT_VERSION_ROW(SQL_CREATE_VERSION_TABLE(NoVersion), DB_VERSION),
     targets |-> SQL_CREATE_TARGETS_TABLE(NoTable)]

\* What the environment does to the reset: path.unlink() succeeds, finds the
\* file already gone, or is refused; the second connect and the schema
\* creation succeed or fail with OperationalError.
Envs == [unlink : {"ok", "missing", "denied"}, recreate : {"ok", "connect_fail", "ddl_fail"}]

\* No failure of the environment.
NoEnv == [unlink |-> "ok", recreate |-> "ok"]

\* A variant of the reset that takes a file already gone for a failure.
ResetDbMissingFatal(f, env) ==
    IF env.unlink \in {"denied", "missing"}
    THEN [status |-> "IsengardDBError", file |-> f, leaked |-> 0, reset |-> FALSE,
          failed |-> "delete"]
    ELSE IF env.recreate = "connect_fail"
    THEN [status |-> "IsengardDBError", file |-> AbsentFile, leaked |-> 0, reset |-> FALSE,
          failed |-> "recreate"]
    ELSE IF env.recreate = "ddl_fail"
    THEN [status |-> "IsengardDBError", file |-> EmptyDbFile, leaked |-> 1, reset |-> FALSE,
          failed |-> "recreate"]
    ELSE [status |-> "ok", file |-> FreshStore, leaked |-> 0, reset |-> TRUE,
          failed |-> "none"]

\* The destroy-and-recreate branch of init_or_reset_db (lines 56-75), entered
\* with the first connection open. `leaked` counts connections left open,
\* `failed` names the step that raised: the first connect ("open"), the
\* version read, the unlink ("delete"), or the second connect and the schema
\* creation ("recreate").
ResetDb(f, env) ==
    IF env.unlink = "denied"
    THEN [status |-> "IsengardDBError", file |-> f, leaked |-> 0, reset |-> FALSE,
          failed |-> "delete"]
    ELSE IF env.recreate = "connect_fail"
    THEN [status |-> "IsengardDBError", file |-> AbsentFile, leaked |-> 0, reset |-> FALSE,
          failed |-> "recreate"]
    ELSE IF env.recreate = "ddl_fail"
    THEN [status |-> "IsengardDBError", file |-> EmptyDbFile, leaked |-> 1, reset |-> FALSE,
          failed |-> "recreate"]
    ELSE [status |-> "ok", file |-> FreshStore, leaked |-> 0, reset |-> TRUE,
          failed |-> "none"]

\* Lines 49-54: the optimistic version read; only OperationalError is caught.
CurrentDbVersion(f) ==
    LET v == SQL_FETCH_VERSION_ROW(f)
    IN IF v.status = "OperationalError" THEN [status |-> "ok", value |-> -1] ELSE v

\* init_or_reset_db(path). status "ok" returns a connection on `file`.
InitOrResetDb(f, env) ==
    LET c == sqlite3_connect(f)
    IN IF c.status # "ok"
       THEN [status |-> "IsengardDBError", file |-> f, leaked |-> 0, reset |-> FALSE,
             failed |-> "open"]
       ELSE LET v == CurrentDbVersion(c.file)
            IN IF v.status # "ok"
               THEN [status |-> v.status, file |-> c.file, leaked |-> 1, reset |-> FALSE,
                     failed |-> "version"]
               ELSE IF v.value # DB_VERSION
               THEN ResetDb(c.file, env)
               ELSE [status |-> "ok", file |-> c.file, leaked |-> 0, reset |-> FALSE,
                     failed |-> "none"]

\* SELECT fingerprint FROM targets WHERE id = ?, then fetchone(): the first
\* matching row, None when there is none.
SQL_FETCH_TARGET(t, id) ==
    IF ~t.exists THEN [status |-> "OperationalError", value |-> None]
    ELSE LET hits == {i \in 1..Len(t.rows) : t.rows[i].id = id}
         IN IF hits = {} THEN [status |-> "ok", value |-> None]
            ELSE [status |-> "ok",
                  value |-> t.rows[CHOOSE i \in hits : \A j \in hits : i <= j].fingerprint]

\* INSERT INTO targets(id, fingerprint) VALUES(?, ?) ON CONFLICT(id) DO UPDATE SET
\* fingerprint=excluded.fingerprint. sqlite refuses to prepare an ON CONFLICT(id)
\* whose target is no PRIMARY KEY or UNIQUE column (OperationalError), and
\* refuses a row that leaves a NOT NULL column without a value (IntegrityError).
SQL_SET_TARGET(t, id, fp) ==
    IF ~t.exists \/ "id" \notin t.unique
    THEN [status |-> "OperationalError", targets |-> t]
    ELSE IF ~(t.required \subseteq {"id", "fingerprint"})
    THEN [status |-> "IntegrityError", targets |-> t]
    ELSE LET hits == {i \in 1..Len(t.rows) : t.rows[i].id = id}
             row == [id |-> id, fingerprint |-> fp]
         IN [status |-> "ok",
             targets |-> [t EXCEPT !.rows =
                 IF hits = {} THEN Append(@, row)
                 ELSE [i \in 1..Len(@) |-> IF i \in hits THEN row ELSE @[i]]]]

NoFingerprints == [id \in Ids |-> None]
ClosedDb == [open |-> FALSE, targets |-> NoTable, written |-> NoFingerprints]

\* Whether the version record on disk reads as the current schema version.
VersionMatches(f) ==
    LET v == SQL_FETCH_VERSION_ROW(f)
    IN f.kind = "db" /\ v.status = "ok" /\ v.value = DB_VERSION

\* Backing files a build can find at `path`.
KeyedTargets ==
    [exists |-> TRUE, unique |-> {"id"}, required |-> {"id", "fingerprint"}, rows |-> <<>>]
InitialFiles ==
    { AbsentFile,
      EmptyDbFile,
      FreshStore,
      [kind |-> "unopenable", version |-> NoVersion, targets |-> NoTable],
      [kind |-> "corrupt", version |-> NoVersion, targets |-> NoTable],
      \* a version table with no row, or with a row under another magic
      [FreshStore EXCEPT !.version.rows = {}],
      [FreshStore EXCEPT !.version.rows = {[magic |-> 1, value |-> DB_VERSION]}],
      \* stores that hold a fingerprint, of this and of a later schema version
      [FreshStore EXCEPT !.targets.rows = <<[id |-> "a#", fingerprint |-> "fp1"]>>],
      [FreshStore EXCEPT !.version.rows = {[magic |-> VERSION_MAGIC_NUMBER, value |-> DB_VERSION + 1]},
                         !.targets.rows = <<[id |-> "a#", fingerprint |-> "fp1"]>>],
      \* a store of the current version whose targets table is keyed by id
      [FreshStore EXCEPT !.targets = KeyedTargets] }

\* DB.connect(path).__enter__: init_or_reset_db, then yield cls(path, con).
Connect(env) ==
    /\ ~db.open
    /\ sessions < MaxSessions
    /\ LET r == InitOrResetDb(file, env)
       IN /\ file' = r.file
          /\ db' = IF r.status = "ok"
                   THEN [open |-> TRUE, targets |-> r.file.targets, written |-> NoFingerprints]
                   ELSE ClosedDb
          /\ openCons' = openCons + r.leaked + (IF r.status = "ok" THEN 1 ELSE 0)
          /\ outcome' = [op |-> "connect", status |-> r.status, id |-> None,
                         value |-> None, reset |-> r.reset, matched |-> VersionMatches(file),
                         failed |-> r.failed, env |-> env]
          /\ durable' = IF VersionMatches(file) THEN durable ELSE NoFingerprints
    /\ lastSet' = NoFingerprints
    /\ sessions' = sessions + 1
    /\ UNCHANGED <<targetVars, buildVars>>

\* DB.fetch_previous_fingerprint(target)
FetchPreviousFingerprint(id) ==
    /\ db.open
    /\ LET r == SQL_FETCH_TARGET(db.targets, id)
       IN outcome' = [op |-> "fetch", status |-> r.status, id |-> id,
                      value |-> r.value, reset |-> FALSE, matched |-> FALSE,
                   failed |-> "none", env |-> NoEnv]
    /\ UNCHANGED <<file, db, openCons, lastSet, durable, sessions>>
    /\ UNCHANGED <<targetVars, buildVars>>

\* DB.set_fingerprint(target, fingerprint): the statement runs in the
\* connection's open transaction; nothing here commits it.
SetFingerprint(id, fp) ==
    /\ db.open
    /\ LET r == SQL_SET_TARGET(db.targets, id, fp)
       IN /\ db' = [db EXCEPT !.targets = r.targets,
                              !.written[id] = IF r.status = "ok" THEN fp ELSE @]
          /\ outcome' = [op |-> "set", status |-> r.status, id |-> id,
                         value |-> fp, reset |-> FALSE, matched |-> FALSE,
                   failed |-> "none", env |-> NoEnv]
    /\ lastSet' = [lastSet EXCEPT ![id] = fp]
    /\ UNCHANGED <<file, openCons, durable, sessions>>
    /\ UNCHANGED <<targetVars, buildVars>>

\* The with-body returns: `finally: con.close()`. close() commits nothing, so
\* the file keeps what it held.
ExitNormally ==
    /\ db.open
    /\ db' = ClosedDb
    /\ openCons' = openCons - 1
    /\ durable' = [id \in Ids |-> IF db.written[id] # None THEN db.written[id] ELSE durable[id]]
    /\ lastSet' = NoFingerprints
    /\ outcome' = [op |-> "exit", status |-> "ok", id |-> None,
                   value |-> None, reset |-> FALSE, matched |-> FALSE,
                   failed |-> "none", env |-> NoEnv]
    /\ UNCHANGED <<file, sessions>>
    /\ UNCHANGED <<targetVars, buildVars>>

\* The with-body raises: the same `finally: con.close()`.
ExitRaising ==
    /\ db.open
    /\ db' = ClosedDb
    /\ openCons' = openCons - 1
    /\ lastSet' = NoFingerprints
    /\ outcome' = [op |-> "exit", status |-> "raised", id |-> None,
                   value |-> None, reset |-> FALSE, matched |-> FALSE,
                   failed |-> "none", env |-> NoEnv]
    /\ UNCHANGED <<file, durable, sessions>>
    /\ UNCHANGED <<targetVars, buildVars>>

(***************************************************************************)
(* _target.py: strings, str.format and pathlib                             *)
(***************************************************************************)

\* Bound of the target model: the longest symbolic name tried exhaustively.
MaxLen == 4
\* Bound of the registry model: the longest handler list tried exhaustively.
MaxHandlers == 2

Chars == {"a", "/", "#", "{", "}"}

RECURSIVE StringsUpTo(_)
StringsUpTo(n) ==
    IF n = 0 THEN {<<>>}
    ELSE LET shorter == StringsUpTo(n - 1)
         IN shorter \cup {Append(s, c) : s \in {t \in shorter : Len(t) = n - 1}, c \in Chars}

\* str.endswith
EndsWith(s, suffix) ==
    /\ Len(suffix) <= Len(s)
    /\ SubSeq(s, Len(s) - Len(suffix) + 1, Len(s)) = suffix

\* Configuration mappings: sets of (key, value) entries, one entry per key.
ConfigKeys(config) == {e.key : e \in config}
ConfigGet(config, key) == (CHOOSE e \in config : e.key = key).value

FormatError(kind, key) == [status |-> kind, value |-> <<>>, key |-> key]

\* str.format(**config), scanned left to right as CPython's MarkupIterator
\* does: "{{" and "}}" are literal braces, "{name}" is looked up in config
\* (KeyError), "{}" asks for a positional argument (IndexError), and a lone
\* brace or an unclosed field is a ValueError.
RECURSIVE Format(_, _, _, _)
Format(s, i, config, acc) ==
    IF i > Len(s) THEN [status |-> "ok", value |-> acc, key |-> <<>>]
    ELSE IF s[i] = "{"
    THEN IF i < Len(s) /\ s[i + 1] = "{" THEN Format(s, i + 2, config, Append(acc, "{"))
         ELSE LET braces == {j \in (i + 1)..Len(s) : s[j] \in {"{", "}"}}
              IN IF braces = {} THEN FormatError("ValueError", <<>>)
                 ELSE LET j == CHOOSE k \in braces : \A l \in braces : k <= l
                          name == SubSeq(s, i + 1, j - 1)
                      IN IF s[j] = "{" THEN FormatError("ValueError", <<>>)
                         ELSE IF name = <<>> THEN FormatError("IndexError", <<>>)
                         ELSE IF name \notin ConfigKeys(config) THEN FormatError("KeyError", name)
                         ELSE Format(s, j + 1, config, acc \o ConfigGet(config, name))
    ELSE IF s[i] = "}"
    THEN IF i < Len(s) /\ s[i + 1] = "}" THEN Format(s, i + 2, config, Append(acc, "}"))
         ELSE FormatError("ValueError", <<>>)
    ELSE Format(s, i + 1, config, Append(acc, s[i]))

\* Path(s).is_absolute() on a POSIX path
IsAbsolute(s) == Len(s) > 0 /\ s[1] = "/"

\* The components of a relative path string, as PurePosixPath parses them:
\* split at "/", empty and "." components dropped.
RECURSIVE Components(_, _, _, _)
Components(s, i, cur, acc) ==
    LET done == IF cur = <<>> \/ cur = <<".">> THEN acc ELSE Append(acc, cur)
    IN IF i > Len(s) THEN done
       ELSE IF s[i] = "/" THEN Components(s, i + 1, <<>>, done)
       ELSE Components(s, i + 1, Append(cur, s[i]), acc)

\* (workdir / resolved).as_posix() for a relative `resolved`: the components
\* of `resolved` appended to workdir, each after one "/".
RECURSIVE JoinComponents(_, _, _)
JoinComponents(path, comps, i) ==
    IF i > Len(comps) THEN path
    ELSE JoinComponents((IF EndsWith(path, <<"/">>) THEN path ELSE Append(path, "/")) \o comps[i],
                        comps, i + 1)

JoinPath(workdir, resolved) == JoinComponents(workdir, Components(resolved, 1, <<>>, <<>>), 1)

\* Path(s) for an absolute or relative string s, back as a string.
PurePath(s) ==
    LET root == IF Len(s) >= 2 /\ s[1] = "/" /\ s[2] = "/" /\ ~(Len(s) >= 3 /\ s[3] = "/")
                THEN <<"/", "/">>
                ELSE IF IsAbsolute(s) THEN <<"/">> ELSE <<>>
        comps == Components(s, 1, <<>>, <<>>)
    IN IF root = <<>> /\ comps = <<>> THEN <<".">>
       ELSE IF root = <<>> THEN JoinComponents(comps[1], comps, 2)
       ELSE JoinComponents(root, comps, 1)

(***************************************************************************)
(* _target.py: the handlers' resolve and cook                              *)
(***************************************************************************)

\* Handler instances. `kind` is the class whose methods the instance runs,
\* `suffix` its DISCRIMINANT_SUFFIX, `uid` its identity (`is`), `strategy`
\* a FileTargetHandler's fingerprint_strategy.
FileHandler == [uid |-> 1, kind |-> "File", suffix |-> <<"#">>, strategy |-> "stat+checksum"]
FolderHandler == [uid |-> 2, kind |-> "Folder", suffix |-> <<"/">>, strategy |-> "none"]
VirtualHandler == [uid |-> 3, kind |-> "Virtual", suffix |-> <<"@">>, strategy |-> "none"]
DeferredHandler == [uid |-> 4, kind |-> "Deferred", suffix |-> <<"?">>, strategy |-> "none"]
\* a second FileTargetHandler instance, FileTargetHandler("stat")
StatFileHandler == [uid |-> 5, kind |-> "File", suffix |-> <<"#">>, strategy |-> "stat"]
\* subclasses of VirtualTargetHandler that set a longer, and an empty, suffix
LongSuffixHandler == [uid |-> 6, kind |-> "Virtual", suffix |-> <<"a", "#">>, strategy |-> "none"]
NoSuffixHandler == [uid |-> 7, kind |-> "Virtual", suffix |-> <<>>, strategy |-> "none"]

Handlers == {FileHandler, FolderHandler, VirtualHandler, DeferredHandler,
             StatFileHandler, LongSuffixHandler, NoSuffixHandler}
NoHandler == [uid |-> 0, kind |-> "None", suffix |-> <<>>, strategy |-> "none"]

Raised(kind, key) == [status |-> kind, value |-> <<>>, key |-> key]

\* BaseTargetHandler.resolve: id.format(**config); KeyError, and only
\* KeyError, becomes IsengardDefinitionError naming the key.
BaseResolve(id, config) ==
    LET r == Format(id, 1, config, <<>>)
    IN IF r.status = "KeyError" THEN Raised("IsengardDefinitionError", r.key) ELSE r

\* FileTargetHandler.resolve
FileResolve(id, config, workdir) ==
    LET r == BaseResolve(id, config)
    IN IF r.status = "ok" /\ r.value # <<>> /\ ~IsAbsolute(r.value)
       THEN [r EXCEPT !.value = JoinPath(workdir, r.value)]
       ELSE r

\* A variant that does not put the trailing "/" back.
FolderResolveNoSlash(id, config, workdir) ==
    LET r == Format(id, 1, config, <<>>)
        b == IF r.status = "KeyError" THEN Raised("IsengardDefinitionError", r.key) ELSE r
    IN IF b.status = "ok" /\ b.value # <<>> /\ ~IsAbsolute(b.value)
       THEN [b EXCEPT !.value = JoinPath(workdir, b.value)]
       ELSE b

\* FolderTargetHandler.resolve: as_posix() drops the trailing "/", which is
\* put back.
FolderResolve(id, config, workdir) ==
    LET r == BaseResolve(id, config)
    IN IF r.status = "ok" /\ r.value # <<>> /\ ~IsAbsolute(r.value)
       THEN [r EXCEPT !.value = Append(JoinPath(workdir, r.value), "/")]
       ELSE r

\* handler.resolve(id, config, workdir), by the handler's class
Resolve(handler, id, config, workdir) ==
    IF handler.kind = "File" THEN FileResolve(id, config, workdir)
    ELSE IF handler.kind = "Folder" THEN FolderResolve(id, config, workdir)
    ELSE BaseResolve(id, config)

\* Cooked values and fingerprints. A fingerprint is None or bytes: b"", bytes
\* pickle cannot load, the pickle of a Python object, or the digests a handler
\* wrote. Bytes are kept as their first 32 bytes (`head`) and the rest (`tail`).
NoValue == [type |-> "None", value |-> <<>>]
PyPath(p) == [type |-> "Path", value |-> p]
PyStr(x) == [type |-> "str", value |-> x]

\* 32-byte strings. sha256 is kept as the value it digests (no collisions).
NoDigest == [of |-> "none", stat |-> <<>>, data |-> ""]
Zeros == [of |-> "zeros", stat |-> <<>>, data |-> ""]
sha256(of, stat, data) == [of |-> of, stat |-> stat, data |-> data]

\* The third member of a pickled triple: None or a File/Folder fingerprint.
NoInner == [tag |-> "None", head |-> NoDigest, tail |-> NoDigest]
Inner(fp) == [tag |-> fp.tag, head |-> fp.head, tail |-> fp.tail]

NoObject == [tag |-> "None", value |-> NoValue, handler |-> NoHandler, fp |-> NoInner]
Pickled(obj) == [tag |-> "pickle", obj |-> obj, head |-> NoDigest, tail |-> NoDigest]
Bytes(head, tail) == [tag |-> "digest", obj |-> NoObject, head |-> head, tail |-> tail]
Outer(inner) == [tag |-> inner.tag, obj |-> NoObject, head |-> inner.head, tail |-> inner.tail]
NoneFingerprint == [tag |-> "None", obj |-> NoObject, head |-> NoDigest, tail |-> NoDigest]
EmptyFingerprint == [tag |-> "empty", obj |-> NoObject, head |-> NoDigest, tail |-> NoDigest]
GarbageFingerprint == [tag |-> "garbage", obj |-> NoObject, head |-> NoDigest, tail |-> NoDigest]

\* pickle keeps a handler's class and attributes, not its identity; loading
\* builds a new instance.
Reduce(handler) == [handler EXCEPT !.uid = 0]
Rebuilt(state) == [state EXCEPT !.uid = -1]
Triple(value, handler, inner) ==
    [tag |-> "triple", value |-> value, handler |-> Reduce(handler), fp |-> inner]

PreviousFingerprints ==
    { NoneFingerprint,
      EmptyFingerprint,
      GarbageFingerprint,
      Pickled([NoObject EXCEPT !.tag = "falsy"]),
      Pickled([NoObject EXCEPT !.tag = "scalar"]),
      Pickled(Triple(PyPath(<<"/", "p", "/", "a">>), FileHandler, NoInner)),
      Pickled(Triple(PyStr(<<"a">>), FileHandler, NoInner)) }

\* handler.TARGET_TYPE
TARGET_TYPE(handler) ==
    IF handler.kind \in {"File", "Folder"} THEN "Path"
    ELSE IF handler.kind = "Virtual" THEN "str"
    ELSE "DeferredTarget"

Unbound(id) ==
    [type |-> "DeferredTarget", value |-> id, bound |-> FALSE,
     boundValue |-> NoValue, boundHandler |-> NoHandler]
Plain(type, value) ==
    [type |-> type, value |-> value, bound |-> FALSE,
     boundValue |-> NoValue, boundHandler |-> NoHandler]

\* DeferredTargetHandler._load_previous_fingerprint: pickle.loads, any
\* exception read as None.
LoadPreviousFingerprint(fp) ==
    IF fp.tag # "pickle" THEN NoObject
    ELSE IF fp.obj.tag = "triple" THEN [fp.obj EXCEPT !.handler = Rebuilt(@)]
    ELSE fp.obj

\* A variant of cook that reads no binding out of the previous fingerprint.
DeferredCookForgetful(id, fp) == [status |-> "ok", cooked |-> Unbound(id)]

\* DeferredTargetHandler.cook, with DeferredTarget.resolve on a new target.
DeferredCook(id, fp) ==
    LET obj == LoadPreviousFingerprint(fp)
    IN IF fp.tag \in {"None", "empty"} \/ obj.tag \in {"None", "falsy"}
       THEN [status |-> "ok", cooked |-> Unbound(id)]
       ELSE IF obj.tag # "triple"
       THEN [status |-> "TypeError", cooked |-> Unbound(id)]
       ELSE IF obj.value.type # TARGET_TYPE(obj.handler)
       THEN [status |-> "IsengardRunError", cooked |-> Unbound(id)]
       ELSE [status |-> "ok",
             cooked |-> [Unbound(id) EXCEPT !.bound = TRUE, !.boundValue = obj.value,
                                            !.boundHandler = obj.handler]]

\* handler.cook(id, previous_fingerprint), by the handler's class
Cook(handler, id, fp) ==
    IF handler.kind \in {"File", "Folder"}
    THEN [status |-> "ok", cooked |-> Plain("Path", PurePath(SubSeq(id, 1, Len(id) - 1)))]
    ELSE IF handler.kind = "Virtual"
    THEN [status |-> "ok", cooked |-> Plain("str", id)]
    ELSE DeferredCook(id, fp)

(***************************************************************************)
(* _target.py: clean, compute_fingerprint and need_rebuild                 *)
(***************************************************************************)

\* What os.stat reports of a path, in the order FileTargetHandler packs it.
\* st_mode stands for the permission bits; the file type is the node's kind.
BaseStat ==
    [st_mtime |-> 1, st_size |-> 1, st_ino |-> 1, st_mode |-> 1, st_uid |-> 1, st_gid |-> 1]
Stats ==
    { BaseStat,
      [BaseStat EXCEPT !.st_mtime = 2], [BaseStat EXCEPT !.st_size = 2],
      [BaseStat EXCEPT !.st_ino = 2], [BaseStat EXCEPT !.st_mode = 2],
      [BaseStat EXCEPT !.st_uid = 2], [BaseStat EXCEPT !.st_gid = 2] }
Contents == {"c1", "c2"}

\* What a path holds: nothing, a regular file (which open() may be refused
\* on), or a directory.
AbsentNode == [kind |-> "absent", stats |-> BaseStat, content |-> "", readable |-> FALSE]
RegularFile(stats, content, readable) ==
    [kind |-> "file", stats |-> stats, content |-> content, readable |-> readable]
Directory(stats) == [kind |-> "dir", stats |-> stats, content |-> "", readable |-> TRUE]
Nodes ==
    {AbsentNode}
    \cup {RegularFile(BaseStat, c, TRUE) : c \in Contents}
    \cup {RegularFile(st, "c1", TRUE) : st \in Stats}
    \cup {RegularFile(BaseStat, "c1", FALSE)}
    \cup {Directory(BaseStat), Directory([BaseStat EXCEPT !.st_mtime = 2])}

\* The one path the targets of a build name.
DiskPaths == {<<"/", "p", "/", "a">>}
Lookup(d, path) == IF path \in DOMAIN d THEN d[path] ELSE AbsentNode

\* A variant of pack that leaves st_gid out.
packWithoutGid(stats) ==
    <<stats.st_mtime, stats.st_size, stats.st_ino, stats.st_mode, stats.st_uid>>

\* pack("=dQQQQQ", st_mtime, st_size, st_ino, st_mode, st_uid, st_gid)
pack(stats) ==
    <<stats.st_mtime, stats.st_size, stats.st_ino, stats.st_mode, stats.st_uid, stats.st_gid>>

\* sha256(pack(...)).digest() and sha256(fd.read()).digest()
MetaDigest(stats) == sha256("stat", pack(stats), "")
ContentDigest(content) == sha256("content", <<>>, content)

\* previous_fingerprint[:32] and previous_fingerprint[32:] of bytes
First32(fp) ==
    IF fp.tag = "digest" THEN fp.head
    ELSE IF fp.tag = "empty" THEN NoDigest
    ELSE sha256(fp.tag, <<>>, "")
Rest32(fp) ==
    IF fp.tag = "digest" THEN fp.tail
    ELSE IF fp.tag = "pickle" THEN sha256(fp.tag, <<>>, "")
    ELSE NoDigest

Returns(value) == [status |-> "ok", value |-> value]
Raises(kind) == [status |-> kind, value |-> "None"]

\* FileTargetHandler.compute_fingerprint: None on OSError (stat of a missing
\* path, open refused) and on a directory.
FileComputeFingerprint(handler, cooked, d) ==
    LET node == Lookup(d, cooked.value)
    IN IF node.kind = "absent" THEN NoneFingerprint
       ELSE IF node.kind = "dir" THEN NoneFingerprint
       ELSE IF handler.strategy = "stat+checksum"
       THEN IF node.readable
            THEN Bytes(MetaDigest(node.stats), ContentDigest(node.content))
            ELSE NoneFingerprint
       ELSE Bytes(MetaDigest(node.stats), Zeros)

\* A variant of need_rebuild that compares the stat digest only, whatever
\* the strategy.
FileNeedRebuildStatOnly(handler, cooked, previous_fingerprint, d) ==
    LET node == Lookup(d, cooked.value)
    IN IF node.kind = "absent" THEN Returns("True")
       ELSE IF node.kind = "dir" THEN Returns("None")
       ELSE IF previous_fingerprint.tag = "None" THEN Raises("TypeError")
       ELSE IF First32(previous_fingerprint) # MetaDigest(node.stats) THEN Returns("True")
       ELSE Returns("False")

\* FileTargetHandler.need_rebuild
FileNeedRebuild(handler, cooked, previous_fingerprint, d) ==
    LET node == Lookup(d, cooked.value)
    IN IF node.kind = "absent" THEN Returns("True")
       ELSE IF node.kind = "dir" THEN Returns("None")
       ELSE IF previous_fingerprint.tag = "None" THEN Raises("TypeError")
       ELSE IF First32(previous_fingerprint) # MetaDigest(node.stats) THEN Returns("True")
       ELSE IF handler.strategy = "stat+checksum"
       THEN IF ~node.readable THEN Returns("True")
            ELSE IF Rest32(previous_fingerprint) # ContentDigest(node.content)
            THEN Returns("True")
            ELSE Returns("False")
       ELSE Returns("False")

\* FolderTargetHandler.compute_fingerprint: 32 bytes, None unless a directory.
FolderComputeFingerprint(cooked, d) ==
    LET node == Lookup(d, cooked.value)
    IN IF node.kind = "dir" THEN Bytes(MetaDigest(node.stats), NoDigest)
       ELSE NoneFingerprint

\* VirtualTargetHandler.compute_fingerprint
VirtualComputeFingerprint(cooked) == NoneFingerprint

\* A variant of VirtualTargetHandler.need_rebuild: the inherited comparison.
VirtualNeedRebuildInherited(cooked, previous_fingerprint) ==
    Returns(IF NoneFingerprint # previous_fingerprint THEN "True" ELSE "False")

\* VirtualTargetHandler.need_rebuild
VirtualNeedRebuild(cooked, previous_fingerprint) == Returns("True")

\* compute_fingerprint of the File, Folder and Virtual handlers, by class
PlainComputeFingerprint(handler, cooked, d) ==
    IF handler.kind = "File" THEN FileComputeFingerprint(handler, cooked, d)
    ELSE IF handler.kind = "Folder" THEN FolderComputeFingerprint(cooked, d)
    ELSE VirtualComputeFingerprint(cooked)

\* BaseTargetHandler.need_rebuild
BaseNeedRebuild(handler, cooked, previous_fingerprint, d) ==
    Returns(IF PlainComputeFingerprint(handler, cooked, d) # previous_fingerprint
            THEN "True" ELSE "False")

\* need_rebuild of the File, Folder and Virtual handlers, by class
PlainNeedRebuild(handler, cooked, previous_fingerprint, d) ==
    IF handler.kind = "File" THEN FileNeedRebuild(handler, cooked, previous_fingerprint, d)
    ELSE IF handler.kind = "Folder" THEN BaseNeedRebuild(handler, cooked, previous_fingerprint, d)
    ELSE VirtualNeedRebuild(cooked, previous_fingerprint)

\* FileTargetHandler.clean: unlink, a missing file ignored.
FileClean(cooked, d) ==
    LET node == Lookup(d, cooked.value)
    IN IF node.kind = "absent" THEN [status |-> "ok", disk |-> d]
       ELSE IF node.kind = "dir" THEN [status |-> "IsADirectoryError", disk |-> d]
       ELSE [status |-> "ok", disk |-> [d EXCEPT ![cooked.value] = AbsentNode]]

\* FolderTargetHandler.clean: rmtree, a missing folder ignored.
FolderClean(cooked, d) ==
    LET node == Lookup(d, cooked.value)
    IN IF node.kind = "absent" THEN [status |-> "ok", disk |-> d]
       ELSE IF node.kind = "file" THEN [status |-> "NotADirectoryError", disk |-> d]
       ELSE [status |-> "ok", disk |-> [d EXCEPT ![cooked.value] = AbsentNode]]

\* clean of the File, Folder and Virtual handlers, by class
PlainClean(handler, cooked, d) ==
    IF handler.kind = "File" THEN FileClean(cooked, d)
    ELSE IF handler.kind = "Folder" THEN FolderClean(cooked, d)
    ELSE [status |-> "ok", disk |-> d]

\* DeferredTarget.resolved as the cooked value of its handler
Resolved(cooked) == Plain(cooked.boundValue.type, cooked.boundValue.value)

\* A variant of DeferredTarget.resolve that binds again.
DeferredTargetRebind(cooked, target, handler) ==
    IF target.type # TARGET_TYPE(handler)
    THEN [status |-> "IsengardRunError", cooked |-> cooked]
    ELSE [status |-> "ok",
          cooked |-> [cooked EXCEPT !.bound = TRUE, !.boundValue = target,
                                    !.boundHandler = handler]]

\* DeferredTarget.resolve(target, handler)
DeferredTargetResolve(cooked, target, handler) ==
    IF target.type # TARGET_TYPE(handler)
    THEN [status |-> "IsengardRunError", cooked |-> cooked]
    ELSE IF cooked.bound
    THEN [status |-> "IsengardRunError", cooked |-> cooked]
    ELSE [status |-> "ok",
          cooked |-> [cooked EXCEPT !.bound = TRUE, !.boundValue = target,
                                    !.boundHandler = handler]]

\* DeferredTargetHandler.clean
DeferredClean(cooked, d) ==
    IF cooked.bound THEN PlainClean(cooked.boundHandler, Resolved(cooked), d)
    ELSE [status |-> "ok", disk |-> d]

\* A variant of compute_fingerprint that answers None when the bound
\* handler does.
DeferredComputeFingerprintAbsent(cooked, d) ==
    IF cooked.bound
       /\ PlainComputeFingerprint(cooked.boundHandler, Resolved(cooked), d) # NoneFingerprint
    THEN Pickled(Triple(cooked.boundValue, cooked.boundHandler,
                        Inner(PlainComputeFingerprint(cooked.boundHandler, Resolved(cooked), d))))
    ELSE NoneFingerprint

\* DeferredTargetHandler.compute_fingerprint: when bound, the pickle of
\* (resolved_target, resolved_handler, resolved_fingerprint).
DeferredComputeFingerprint(cooked, d) ==
    IF cooked.bound
    THEN Pickled(Triple(cooked.boundValue, cooked.boundHandler,
                        Inner(PlainComputeFingerprint(cooked.boundHandler, Resolved(cooked), d))))
    ELSE NoneFingerprint

\* A variant of need_rebuild that reads the previous fingerprint before it
\* looks at the binding.
DeferredNeedRebuildReadsFirst(cooked, previous_fingerprint, d) ==
    LET resolved == LoadPreviousFingerprint(previous_fingerprint)
    IN IF resolved.tag \in {"None", "falsy"} THEN Returns("True")
       ELSE IF resolved.tag # "triple" THEN Raises("TypeError")
       ELSE IF ~cooked.bound THEN Returns("True")
       ELSE PlainNeedRebuild(cooked.boundHandler, Resolved(cooked), Outer(resolved.fp), d)

\* DeferredTargetHandler.need_rebuild
DeferredNeedRebuild(cooked, previous_fingerprint, d) ==
    LET resolved == LoadPreviousFingerprint(previous_fingerprint)
    IN IF ~cooked.bound THEN Returns("True")
       ELSE IF resolved.tag \in {"None", "falsy"} THEN Returns("True")
       ELSE IF resolved.tag # "triple" THEN Raises("TypeError")
       ELSE PlainNeedRebuild(cooked.boundHandler, Resolved(cooked), Outer(resolved.fp), d)

\* handler.clean(cooked), by the handler's class
Clean(handler, cooked, d) ==
    IF handler.kind = "Deferred" THEN DeferredClean(cooked, d)
    ELSE PlainClean(handler, cooked, d)

\* handler.compute_fingerprint(cooked), by the handler's class
ComputeFingerprint(handler, cooked, d) ==
    IF handler.kind = "Deferred" THEN DeferredComputeFingerprint(cooked, d)
    ELSE PlainComputeFingerprint(handler, cooked, d)

\* handler.need_rebuild(cooked, previous_fingerprint), by the handler's class
NeedRebuild(handler, cooked, previous_fingerprint, d) ==
    IF handler.kind = "Deferred" THEN DeferredNeedRebuild(cooked, previous_fingerprint, d)
    ELSE PlainNeedRebuild(handler, cooked, previous_fingerprint, d)

(***************************************************************************)
(* _target.py: TargetHandlersBundle                                        *)
(***************************************************************************)

\* dict[key] = value: a key already present keeps its place.
DictSet(d, key, value) ==
    IF \E i \in 1..Len(d) : d[i].suffix = key
    THEN [i \in 1..Len(d) |-> IF d[i].suffix = key THEN [suffix |-> key, handler |-> value] ELSE d[i]]
    ELSE Append(d, [suffix |-> key, handler |-> value])

\* A variant that only looks at the handlers registered before this one.
AmbiguousAmongEarlier(target_handlers, i) ==
    \E j \in 1..(i - 1) :
        /\ EndsWith(target_handlers[j].suffix, target_handlers[i].suffix)
        /\ target_handlers[j].uid # target_handlers[i].uid

\* Lines 39-48: some other handler's suffix ends with this handler's.
Ambiguous(target_handlers, i) ==
    \E j \in 1..Len(target_handlers) :
        /\ EndsWith(target_handlers[j].suffix, target_handlers[i].suffix)
        /\ target_handlers[j].uid # target_handlers[i].uid

\* Lines 37-52: the loop over target_handlers; a handler without a suffix is
\* passed over.
RECURSIVE RegisterHandlers(_, _, _)
RegisterHandlers(target_handlers, i, handler_per_suffix) ==
    IF i > Len(target_handlers)
    THEN [status |-> "ok", handler_per_suffix |-> handler_per_suffix]
    ELSE IF target_handlers[i].suffix = <<>>
    THEN RegisterHandlers(target_handlers, i + 1, handler_per_suffix)
    ELSE IF Ambiguous(target_handlers, i)
    THEN [status |-> "IsengardConsistencyError", handler_per_suffix |-> <<>>]
    ELSE RegisterHandlers(target_handlers, i + 1,
             DictSet(handler_per_suffix, target_handlers[i].suffix, target_handlers[i]))

Contains(target_handlers, handler) ==
    \E i \in 1..Len(target_handlers) : target_handlers[i].uid = handler.uid

\* A variant without the check of the default handler.
DefaultIsForeignNever(target_handlers, default_target_handler) == FALSE

\* Line 29: a default handler is given and is not in target_handlers.
DefaultIsForeign(target_handlers, default_target_handler) ==
    /\ default_target_handler.uid # 0
    /\ ~Contains(target_handlers, default_target_handler)

\* TargetHandlersBundle.__init__. NoHandler stands for default None.
TargetHandlersBundle(target_handlers, default_target_handler) ==
    LET r == RegisterHandlers(target_handlers, 1, <<>>)
        built == ~DefaultIsForeign(target_handlers, default_target_handler) /\ r.status = "ok"
    IN [status |-> IF DefaultIsForeign(target_handlers, default_target_handler)
                   THEN "ValueError" ELSE r.status,
        default_target_handler |-> IF built THEN default_target_handler ELSE NoHandler,
        handler_per_suffix |-> IF built THEN r.handler_per_suffix ELSE <<>>,
        \* the constructor's arguments, kept for the properties
        target_handlers |-> target_handlers,
        default_arg |-> default_target_handler]

\* The first entry of handler_per_suffix whose suffix `target` ends with; 0
\* when there is none.
FirstMatch(handler_per_suffix, target) ==
    LET hits == {i \in 1..Len(handler_per_suffix) : EndsWith(target, handler_per_suffix[i].suffix)}
    IN IF hits = {} THEN 0 ELSE CHOOSE i \in hits : \A j \in hits : i <= j

Returned(r, handler) ==
    [status |-> r.status, id |-> r.value, key |-> r.key, handler |-> handler]

\* A variant that never appends the default handler's suffix.
PatchedTargetUnpatched(target, handler) == target

\* Lines 64-66: target + default_target_handler.DISCRIMINANT_SUFFIX
PatchedTarget(target, handler) == target \o handler.suffix

\* TargetHandlersBundle.resolve_target
resolve_target(b, target, config, workdir) ==
    LET i == FirstMatch(b.handler_per_suffix, target)
    IN IF i # 0
       THEN Returned(Resolve(b.handler_per_suffix[i].handler, target, config, workdir),
                     b.handler_per_suffix[i].handler)
       ELSE IF b.default_target_handler.uid # 0
       THEN Returned(Resolve(b.default_target_handler,
                             PatchedTarget(target, b.default_target_handler), config, workdir),
                     b.default_target_handler)
       ELSE Returned(Raised("IsengardConsistencyError", <<>>), NoHandler)

\* TargetHandlersBundle.get_handler
get_handler(b, target) ==
    LET i == FirstMatch(b.handler_per_suffix, target)
    IN IF i # 0 THEN [status |-> "ok", handler |-> b.handler_per_suffix[i].handler]
       ELSE [status |-> "IsengardConsistencyError", handler |-> NoHandler]

\* TargetHandlersBundle.cook_target
cook_target(b, target, previous_fingerprint) ==
    LET i == FirstMatch(b.handler_per_suffix, target)
    IN IF i # 0
       THEN LET c == Cook(b.handler_per_suffix[i].handler, target, previous_fingerprint)
            IN [status |-> c.status, cooked |-> c.cooked,
                handler |-> b.handler_per_suffix[i].handler]
       ELSE [status |-> "IsengardConsistencyError", cooked |-> Plain("None", <<>>),
             handler |-> NoHandler]

\* Inputs of resolution. Configuration values: a plain relative word, an
\* absolute path, and a value that itself holds braces.
Configs ==
    { {},
      {[key |-> <<"a">>, value |-> <<"b">>]},
      {[key |-> <<"a">>, value |-> <<"/", "b">>]},
      {[key |-> <<"a">>, value |-> <<"{", "a", "}">>]} }

\* Working directories: absolute Paths (the root, and a directory under it).
Workdirs == {<<"/">>, <<"/", "p">>}

\* Symbolic names: every string up to MaxLen, and longer ones of the
\* documentation ("{out}/build.log#", a virtual and a deferred name).
ExampleNames ==
    { <<"{", "a", "}", "/", "a", ".", "a", "#">>,
      <<"{", "b", "}", "/", "a", "#">>,
      <<"a", "@">>, <<"{", "a", "}", "@">>, <<"a", "?">>, <<"{", "{", "a", "}", "}", "?">>,
      <<".", "/", "a", "/">>, <<"a", "/", ".", "/", "a", "#">> }
Names == StringsUpTo(MaxLen) \cup ExampleNames

NoBundle ==
    [status |-> "none", default_target_handler |-> NoHandler, handler_per_suffix |-> <<>>,
     target_handlers |-> <<>>, default_arg |-> NoHandler]
NoCall ==
    [op |-> "none", handler |-> NoHandler, target |-> <<>>, config |-> {}, workdir |-> <<>>,
     status |-> "ok", id |-> <<>>, key |-> <<>>]
NoFollow ==
    [op |-> "none", status |-> "ok", handler |-> NoHandler, id |-> <<>>,
     cooked |-> Plain("None", <<>>)]
NoDisk == [path \in DiskPaths |-> AbsentNode]
NoTarget == [handler |-> NoHandler, id |-> <<>>, cooked |-> Plain("None", <<>>)]
NoTaken == [valid |-> FALSE, fp |-> NoneFingerprint, disk |-> NoDisk]
NoLast ==
    [op |-> "none", status |-> "ok", value |-> "None", fp |-> NoneFingerprint,
     before |-> Plain("None", <<>>), argValue |-> NoValue, argHandler |-> NoHandler,
     changed |-> FALSE]

InitStore ==
    /\ file \in InitialFiles
    /\ db = ClosedDb
    /\ openCons = 0
    /\ outcome = [op |-> "none", status |-> "ok", id |-> None,
                  value |-> None, reset |-> FALSE, matched |-> FALSE,
                   failed |-> "none", env |-> NoEnv]
    /\ lastSet = NoFingerprints
    /\ durable = NoFingerprints
    /\ sessions = 0
    /\ bundle = NoBundle
    /\ call = NoCall
    /\ follow = NoFollow
    /\ disk = NoDisk
    /\ subject = NoTarget
    /\ taken = NoTaken
    /\ last = NoLast

NextStore ==
    \/ \E env \in Envs : Connect(env)
    \/ \E id \in Ids : FetchPreviousFingerprint(id)
    \/ \E id \in Ids, fp \in Fingerprints : SetFingerprint(id, fp)
    \/ ExitNormally
    \/ ExitRaising

SpecStore == InitStore /\ [][NextStore]_vars

(***************************************************************************)
(* The registry and the handlers, as a caller drives them                  *)
(***************************************************************************)

\* Handler lists of up to n handlers.
RECURSIVE HandlerListsUpTo(_)
HandlerListsUpTo(n) ==
    IF n = 0 THEN {<<>>}
    ELSE LET shorter == HandlerListsUpTo(n - 1)
         IN shorter \cup {Append(l, h) : l \in {m \in shorter : Len(m) = n - 1}, h \in Handlers}

\* The registrations resolution is exercised on.
Registrations ==
    { [handlers |-> <<FileHandler, FolderHandler, VirtualHandler, DeferredHandler>>,
       default |-> FileHandler],
      [handlers |-> <<FileHandler, FolderHandler, VirtualHandler, DeferredHandler>>,
       default |-> NoHandler],
      [handlers |-> <<FolderHandler, LongSuffixHandler>>, default |-> LongSuffixHandler],
      [handlers |-> <<VirtualHandler, NoSuffixHandler, FileHandler>>, default |-> NoSuffixHandler],
      [handlers |-> <<NoSuffixHandler, StatFileHandler>>, default |-> NoHandler],
      [handlers |-> <<FileHandler, FileHandler, FolderHandler>>, default |-> FolderHandler],
      [handlers |-> <<DeferredHandler, FolderHandler>>, default |-> DeferredHandler],
      [handlers |-> <<>>, default |-> NoHandler] }

\* TargetHandlersBundle(target_handlers, default_target_handler)
Construct(target_handlers, default_target_handler) ==
    /\ bundle.status = "none"
    /\ bundle' = TargetHandlersBundle(target_handlers, default_target_handler)
    /\ UNCHANGED <<call, follow>>
    /\ UNCHANGED <<storeVars, buildVars>>

\* The caller drops the registry, or the exception construction raised.
Discard ==
    /\ bundle.status # "none"
    /\ call.op = "none"
    /\ bundle' = NoBundle
    /\ UNCHANGED <<call, follow>>
    /\ UNCHANGED <<storeVars, buildVars>>

\* bundle.resolve_target(target, config, workdir)
ResolveTarget(target, config, workdir) ==
    /\ bundle.status = "ok"
    /\ call.op = "none"
    /\ LET r == resolve_target(bundle, target, config, workdir)
       IN call' = [op |-> "resolve_target", handler |-> r.handler, target |-> target,
                   config |-> config, workdir |-> workdir,
                   status |-> r.status, id |-> r.id, key |-> r.key]
    /\ UNCHANGED <<bundle, follow>>
    /\ UNCHANGED <<storeVars, buildVars>>

\* bundle.get_handler(r) on the identity resolve_target returned
GetHandler ==
    /\ call.op = "resolve_target" /\ call.status = "ok"
    /\ follow.op = "none"
    /\ LET r == get_handler(bundle, call.id)
       IN follow' = [op |-> "get_handler", status |-> r.status, handler |-> r.handler,
                     id |-> call.id, cooked |-> Plain("None", <<>>)]
    /\ UNCHANGED <<bundle, call>>
    /\ UNCHANGED <<storeVars, buildVars>>

\* bundle.cook_target(r, previous_fingerprint) on the identity resolve_target returned
CookTarget(previous_fingerprint) ==
    /\ call.op = "resolve_target" /\ call.status = "ok"
    /\ follow.op = "none"
    /\ LET r == cook_target(bundle, call.id, previous_fingerprint)
       IN follow' = [op |-> "cook_target", status |-> r.status, handler |-> r.handler,
                     id |-> call.id, cooked |-> r.cooked]
    /\ UNCHANGED <<bundle, call>>
    /\ UNCHANGED <<storeVars, buildVars>>

\* handler.resolve(id, config, workdir) on an unresolved identity, which
\* carries the handler's discriminant suffix (lines 14-18).
HandlerResolve(handler, id, config, workdir) ==
    /\ bundle.status = "none"
    /\ call.op = "none"
    /\ EndsWith(id, handler.suffix)
    /\ LET r == Resolve(handler, id, config, workdir)
       IN call' = [op |-> "resolve", handler |-> handler, target |-> id,
                   config |-> config, workdir |-> workdir,
                   status |-> r.status, id |-> r.value, key |-> r.key]
    /\ UNCHANGED <<bundle, follow>>
    /\ UNCHANGED <<storeVars, buildVars>>

\* handler.resolve(r, config, workdir) on the identity the same call returned
ResolveAgain ==
    /\ call.op = "resolve" /\ call.status = "ok"
    /\ follow.op = "none"
    /\ LET r == Resolve(call.handler, call.id, call.config, call.workdir)
       IN follow' = [op |-> "resolve", status |-> r.status, handler |-> call.handler,
                     id |-> r.value, cooked |-> Plain("None", <<>>)]
    /\ UNCHANGED <<bundle, call>>
    /\ UNCHANGED <<storeVars, buildVars>>

\* The caller is done with the identity.
Return ==
    /\ call.op # "none"
    /\ call' = NoCall
    /\ follow' = NoFollow
    /\ UNCHANGED bundle
    /\ UNCHANGED <<storeVars, buildVars>>

InitTarget ==
    /\ file = AbsentFile
    /\ db = ClosedDb
    /\ openCons = 0
    /\ outcome = [op |-> "none", status |-> "ok", id |-> None,
                  value |-> None, reset |-> FALSE, matched |-> FALSE,
                   failed |-> "none", env |-> NoEnv]
    /\ lastSet = NoFingerprints
    /\ durable = NoFingerprints
    /\ sessions = 0
    /\ bundle = NoBundle
    /\ call = NoCall
    /\ follow = NoFollow
    /\ disk = NoDisk
    /\ subject = NoTarget
    /\ taken = NoTaken
    /\ last = NoLast

\* Registry construction, over every handler list up to MaxHandlers.
NextBundle ==
    \/ /\ bundle.status = "none"
       /\ \E hs \in HandlerListsUpTo(MaxHandlers), d \in Handlers \cup {NoHandler} : Construct(hs, d)
    \/ Discard

SpecBundle == InitTarget /\ [][NextBundle]_vars

\* Resolution through a registry.
NextResolve ==
    \/ \E reg \in Registrations : Construct(reg.handlers, reg.default)
    \/ /\ bundle.status = "ok" /\ call.op = "none"
       /\ \E t \in Names, c \in Configs, w \in Workdirs : ResolveTarget(t, c, w)
    \/ GetHandler
    \/ /\ follow.op = "none"
       /\ \E fp \in PreviousFingerprints : CookTarget(fp)
    \/ Return

SpecResolve == InitTarget /\ [][NextResolve]_vars

\* Resolution by one handler.
NextHandler ==
    \/ /\ call.op = "none"
       /\ \E h \in Handlers, t \in Names, c \in Configs, w \in Workdirs : HandlerResolve(h, t, c, w)
    \/ ResolveAgain
    \/ Return

SpecHandler == InitTarget /\ [][NextHandler]_vars

(***************************************************************************)
(* One target across builds: its handler's calls and the filesystem        *)
(***************************************************************************)

\* The handlers a build's target goes to, and the identity each is given.
Subjects == {FileHandler, StatFileHandler, FolderHandler, VirtualHandler, DeferredHandler}
SubjectId(handler) ==
    IF handler.kind \in {"File", "Folder"} THEN <<"/", "p", "/", "a">> \o handler.suffix
    ELSE <<"a">> \o handler.suffix

\* What a rule passes to DeferredTarget.resolve.
ResolveValues == {PyPath(<<"/", "p", "/", "a">>), PyStr(<<"a", "@">>)}
ResolveHandlers == {FileHandler, FolderHandler, VirtualHandler}

\* Previous fingerprints a call is given: None, bytes no handler wrote, the
\* one the build recorded and, for a deferred target, every pickle of
\* PreviousFingerprints.
Given ==
    {NoneFingerprint, GarbageFingerprint, taken.fp}
    \cup (IF subject.handler.kind = "Deferred" THEN PreviousFingerprints ELSE {})

\* The next build cooks the target: handler.cook(id, previous_fingerprint).
CookAgain(previous_fingerprint) ==
    /\ last.op = "none"
    /\ LET r == Cook(subject.handler, subject.id, previous_fingerprint)
       IN /\ subject' = [subject EXCEPT !.cooked = IF r.status = "ok" THEN r.cooked
                                                  ELSE Plain("None", <<>>)]
          /\ last' = [NoLast EXCEPT !.op = "cook", !.status = r.status,
                                    !.fp = previous_fingerprint]
    /\ UNCHANGED <<disk, taken>>
    /\ UNCHANGED <<storeVars, targetVars>>

\* A rule binds the deferred target: cooked.resolve(value, handler).
TargetResolve(value, handler) ==
    /\ last.op = "none"
    /\ subject.cooked.type = "DeferredTarget"
    /\ LET r == DeferredTargetResolve(subject.cooked, value, handler)
       IN /\ subject' = [subject EXCEPT !.cooked = r.cooked]
          /\ last' = [NoLast EXCEPT !.op = "resolve", !.status = r.status,
                                    !.before = subject.cooked, !.argValue = value,
                                    !.argHandler = handler]
    /\ UNCHANGED <<disk, taken>>
    /\ UNCHANGED <<storeVars, targetVars>>

\* handler.clean(cooked)
CleanTarget ==
    /\ last.op = "none"
    /\ subject.cooked.type # "None"
    /\ LET r == Clean(subject.handler, subject.cooked, disk)
       IN /\ disk' = r.disk
          /\ last' = [NoLast EXCEPT !.op = "clean", !.status = r.status,
                                    !.changed = (r.disk # disk)]
    /\ UNCHANGED <<subject, taken>>
    /\ UNCHANGED <<storeVars, targetVars>>

\* handler.compute_fingerprint(cooked)
FingerprintTarget ==
    /\ last.op = "none"
    /\ subject.cooked.type # "None"
    /\ last' = [NoLast EXCEPT !.op = "compute_fingerprint",
                              !.fp = ComputeFingerprint(subject.handler, subject.cooked, disk)]
    /\ UNCHANGED <<disk, subject, taken>>
    /\ UNCHANGED <<storeVars, targetVars>>

\* The build keeps the fingerprint just computed for the next one.
Record ==
    /\ last.op = "compute_fingerprint"
    /\ taken' = [valid |-> TRUE, fp |-> last.fp, disk |-> disk]
    /\ UNCHANGED <<disk, subject, last>>
    /\ UNCHANGED <<storeVars, targetVars>>

\* handler.need_rebuild(cooked, previous_fingerprint)
CheckRebuild(previous_fingerprint) ==
    /\ last.op = "none"
    /\ subject.cooked.type # "None"
    /\ LET r == NeedRebuild(subject.handler, subject.cooked, previous_fingerprint, disk)
       IN last' = [NoLast EXCEPT !.op = "need_rebuild", !.status = r.status,
                                 !.value = r.value, !.fp = previous_fingerprint]
    /\ UNCHANGED <<disk, subject, taken>>
    /\ UNCHANGED <<storeVars, targetVars>>

\* The caller has read what the call returned or raised and goes on.
Done ==
    /\ last.op # "none"
    /\ last' = NoLast
    /\ UNCHANGED <<disk, subject, taken>>
    /\ UNCHANGED <<storeVars, targetVars>>

\* Between two calls a rule or anything else rewrites, replaces or removes
\* what the path holds.
Mutate(path, node) ==
    /\ last.op = "none"
    /\ disk[path] # node
    /\ disk' = [disk EXCEPT ![path] = node]
    /\ UNCHANGED <<subject, taken, last>>
    /\ UNCHANGED <<storeVars, targetVars>>

\* A first build: no fingerprint is stored, the target is cooked with None.
InitBuild ==
    /\ file = AbsentFile
    /\ db = ClosedDb
    /\ openCons = 0
    /\ outcome = [op |-> "none", status |-> "ok", id |-> None,
                  value |-> None, reset |-> FALSE, matched |-> FALSE,
                   failed |-> "none", env |-> NoEnv]
    /\ lastSet = NoFingerprints
    /\ durable = NoFingerprints
    /\ sessions = 0
    /\ bundle = NoBundle
    /\ call = NoCall
    /\ follow = NoFollow
    /\ disk \in [DiskPaths -> Nodes]
    /\ \E h \in Subjects :
          subject = [handler |-> h, id |-> SubjectId(h),
                    cooked |-> Cook(h, SubjectId(h), NoneFingerprint).cooked]
    /\ taken = NoTaken
    /\ last = NoLast

NextBuild ==
    \/ /\ last.op = "none"
       /\ \E fp \in Given : CookAgain(fp)
    \/ /\ last.op = "none" /\ subject.cooked.type = "DeferredTarget"
       /\ \E v \in ResolveValues, h \in ResolveHandlers : TargetResolve(v, h)
    \/ CleanTarget
    \/ FingerprintTarget
    \/ Record
    \/ /\ last.op = "none" /\ subject.cooked.type # "None"
       /\ \E fp \in Given : CheckRebuild(fp)
    \/ Done
    \/ /\ last.op = "none"
       /\ \E path \in DiskPaths, node \in Nodes : Mutate(path, node)

SpecBuild == InitBuild /\ [][NextBuild]_vars

(***************************************************************************)
(* Properties of the store (SpecStore)                                     *)
(***************************************************************************)

\* C1: within one open store, fetch_previous_fingerprint(id) returns the
\* fingerprint of the most recent set_fingerprint(id, _) of the session, and
\* the store holds at most one record per identity.
C1_SetIsUpsert ==
    db.open =>
        /\ \A id \in Ids : lastSet[id] # None =>
               SQL_FETCH_TARGET(db.targets, id) = [status |-> "ok", value |-> lastSet[id]]
        /\ \A i, j \in 1..Len(db.targets.rows) :
               db.targets.rows[i].id = db.targets.rows[j].id => i = j

C3_UnreadableVersionResets ==
    (outcome.op = "connect" /\ ~outcome.matched) =>
        /\ outcome.status \in {"ok", "IsengardDBError"}
        /\ outcome.status = "ok" =>
               /\ outcome.reset
               /\ db.targets.rows = <<>>
               /\ \A id \in Ids : SQL_FETCH_TARGET(db.targets, id).value = None
               /\ VersionMatches(file)

(***************************************************************************)
(* Properties of registry construction (SpecBundle)                        *)
(***************************************************************************)

\* The default handler given to the constructor is not one of target_handlers.
ForeignDefault ==
    /\ bundle.default_arg.uid # 0
    /\ \A i \in 1..Len(bundle.target_handlers) :
           bundle.target_handlers[i].uid # bundle.default_arg.uid

\* Two distinct registered handlers, the suffix of one a suffix of the other's.
SuffixClash ==
    \E i, j \in 1..Len(bundle.target_handlers) :
        /\ bundle.target_handlers[i].uid # bundle.target_handlers[j].uid
        /\ EndsWith(bundle.target_handlers[j].suffix, bundle.target_handlers[i].suffix)

\* The same, the shorter suffix not empty.
NonEmptySuffixClash ==
    \E i, j \in 1..Len(bundle.target_handlers) :
        /\ bundle.target_handlers[i].uid # bundle.target_handlers[j].uid
        /\ bundle.target_handlers[i].suffix # <<>>
        /\ EndsWith(bundle.target_handlers[j].suffix, bundle.target_handlers[i].suffix)

\* C4 as stated: construction (its default handler registered or None) raises
\* IsengardConsistencyError when two distinct handlers have suffixes one of
\* which is a suffix of the other, and succeeds when there is no such pair.
C4_AnySuffixClashRaises ==
    (bundle.status # "none" /\ ~ForeignDefault) =>
        /\ SuffixClash => bundle.status = "IsengardConsistencyError"
        /\ ~SuffixClash => bundle.status = "ok"

\* C4 as amended: construction (its default handler registered or None) raises
\* IsengardConsistencyError exactly when two distinct handlers have suffixes
\* one of which is not empty and is a suffix of the other, whatever the order
\* of registration, and succeeds otherwise.
C4_NonEmptySuffixClashRaises ==
    (bundle.status # "none" /\ ~ForeignDefault) =>
        /\ NonEmptySuffixClash => bundle.status = "IsengardConsistencyError"
        /\ ~NonEmptySuffixClash => bundle.status = "ok"

\* C4's case: the clash is raised for a handler registered before the one
\* with the longer suffix.
C4_Witness ==
    /\ bundle.status = "IsengardConsistencyError"
    /\ Len(bundle.target_handlers) = 2
    /\ Len(bundle.target_handlers[1].suffix) < Len(bundle.target_handlers[2].suffix)
    /\ EndsWith(bundle.target_handlers[2].suffix, bundle.target_handlers[1].suffix)

\* C5 as stated: a default handler that is not registered makes construction
\* fail with IsengardConsistencyError.
C5_ForeignDefaultIsConsistencyError ==
    (bundle.status # "none" /\ ForeignDefault) => bundle.status = "IsengardConsistencyError"

\* C5 as amended: a default handler that is not registered makes construction
\* fail with ValueError, and no registry is produced.
C5_ForeignDefaultIsValueError ==
    (bundle.status # "none" /\ ForeignDefault) =>
        /\ bundle.status = "ValueError"
        /\ bundle.handler_per_suffix = <<>>
        /\ bundle.default_target_handler.uid = 0

\* C5's case: handlers are registered and the default is none of them.
C5_Witness ==
    /\ bundle.status = "ValueError"
    /\ Len(bundle.target_handlers) = 2
    /\ ForeignDefault

(***************************************************************************)
(* Properties of resolution through a registry (SpecResolve)               *)
(***************************************************************************)

\* The registered handlers, in registration order, whose suffix is not empty
\* and ends the name.
MatchingRegistered(target) ==
    {i \in 1..Len(bundle.target_handlers) :
        /\ bundle.target_handlers[i].suffix # <<>>
        /\ EndsWith(target, bundle.target_handlers[i].suffix)}

SameResult(r) == call.status = r.status /\ call.id = r.value /\ call.key = r.key

\* C6: a name that ends with no registered suffix is resolved, with the
\* default handler's suffix appended, by the default handler, which is
\* returned, and raises IsengardConsistencyError when there is no default; a
\* name that ends with a registered suffix is resolved as it is by the first
\* matching handler in registration order.
C6_ResolveTargetDispatch ==
    call.op = "resolve_target" =>
        LET hits == MatchingRegistered(call.target)
            default == bundle.default_arg
        IN IF hits # {}
           THEN LET h == bundle.target_handlers[CHOOSE i \in hits : \A j \in hits : i <= j]
                IN /\ call.handler = h
                   /\ SameResult(Resolve(h, call.target, call.config, call.workdir))
           ELSE IF default.uid # 0
           THEN /\ call.handler = default
                /\ SameResult(Resolve(default, call.target \o default.suffix,
                                      call.config, call.workdir))
           ELSE call.status = "IsengardConsistencyError"

\* C6's case: no suffix matches and the default handler, a File handler,
\* resolves the name with its suffix appended.
C6_Witness ==
    /\ call.op = "resolve_target" /\ call.status = "ok"
    /\ MatchingRegistered(call.target) = {}
    /\ call.handler = FileHandler
    /\ call.target = <<"a">> /\ call.workdir = <<"/", "p">>
    /\ call.id = <<"/", "p", "/", "a", "#">>

\* C7: for an identity r that resolve_target returned with handler h,
\* get_handler(r) returns h, and cook_target(r, fp) cooks with h and raises
\* no IsengardConsistencyError.
C7_ResolvedIdentityKeepsHandler ==
    /\ follow.op = "get_handler" => (follow.status = "ok" /\ follow.handler = call.handler)
    /\ follow.op = "cook_target" =>
           (follow.status # "IsengardConsistencyError" /\ follow.handler = call.handler)

(***************************************************************************)
(* Properties of a handler's resolve (SpecHandler)                         *)
(***************************************************************************)

\* C8: resolving the identity a handler's resolve returned, with the same
\* config and workdir, returns it unchanged.
C8_ResolveIdempotent ==
    follow.op = "resolve" => (follow.status = "ok" /\ follow.id = call.id)

\* C9: a File or Folder handler's resolve returns the substituted name as it
\* is when that is absolute, and joined with workdir when it is relative; the
\* identity is absolute and ends with the handler's suffix either way;
\* "{a}/a.a#" with {a: "b"} and workdir /p gives /p/b/a.a#.
C9_OnDiskResolveIsAbsolute ==
    (call.op = "resolve" /\ call.handler.kind \in {"File", "Folder"} /\ call.status = "ok") =>
        LET substituted == Format(call.target, 1, call.config, <<>>).value
        IN /\ IsAbsolute(call.id)
           /\ EndsWith(call.id, call.handler.suffix)
           /\ IsAbsolute(substituted) => call.id = substituted
           /\ ~IsAbsolute(substituted) =>
                  /\ SubSeq(call.id, 1, Len(call.workdir)) = call.workdir
                  /\ Components(call.id, 1, <<>>, <<>>) =
                         Components(call.workdir, 1, <<>>, <<>>)
                             \o Components(substituted, 1, <<>>, <<>>)
           /\ (/\ call.target = <<"{", "a", "}", "/", "a", ".", "a", "#">>
               /\ call.config = {[key |-> <<"a">>, value |-> <<"b">>]}
               /\ call.workdir = <<"/", "p">>)
                  => call.id = <<"/", "p", "/", "b", "/", "a", ".", "a", "#">>

\* C9's case: a Folder handler joins a relative name with workdir.
C9_Witness ==
    /\ call.op = "resolve" /\ call.status = "ok"
    /\ call.handler = FolderHandler
    /\ call.target = <<"{", "a", "}", "/">>
    /\ call.config = {[key |-> <<"a">>, value |-> <<"b">>]}
    /\ call.workdir = <<"/", "p">>
    /\ call.id = <<"/", "p", "/", "b", "/">>

\* C10: whatever fails in the substitution of placeholders, resolve raises
\* IsengardDefinitionError, and for a key absent from config one naming it.
C10_FailuresAreDefinitionErrors ==
    (call.op = "resolve" /\ call.status # "ok") =>
        /\ call.status = "IsengardDefinitionError"
        /\ call.key # <<>> /\ call.key \notin ConfigKeys(call.config)

(***************************************************************************)
(* Properties of the handlers over the filesystem (SpecBuild)              *)
(***************************************************************************)

\* C11: need_rebuild given None, the answer of the store for an identity it
\* holds no fingerprint of, returns True for every handler and whatever the
\* path holds; it returns no false value and raises nothing.
C11_NoStoredFingerprintRebuilds ==
    (last.op = "need_rebuild" /\ last.fp = NoneFingerprint) =>
        (last.status = "ok" /\ last.value = "True")

\* The handler that reads the disk for the build's target, and the path it
\* reads: the target's own, or those a deferred target is bound to.
OnDiskHandler ==
    IF subject.handler.kind = "Deferred" THEN subject.cooked.boundHandler ELSE subject.handler
OnDiskPath ==
    IF subject.handler.kind = "Deferred" THEN subject.cooked.boundValue.value
    ELSE subject.cooked.value

\* The recorded fingerprint is one this target, bound as it is now, gave.
RecordedOfThisTarget ==
    /\ taken.valid
    /\ subject.handler.kind = "Deferred" =>
          /\ subject.cooked.bound
          /\ taken.fp.tag = "pickle"
          /\ taken.fp.obj.value = subject.cooked.boundValue
          /\ taken.fp.obj.handler = Reduce(subject.cooked.boundHandler)

\* The path held what the handler expects (a regular file for File, a
\* directory for Folder) on disk d.
ExistsFor(handler, path, d) ==
    \/ handler.kind = "File" /\ Lookup(d, path).kind = "file"
    \/ handler.kind = "Folder" /\ Lookup(d, path).kind = "dir"

\* A File or Folder target, or a deferred one bound to such, was
\* fingerprinted while it existed and is gone now.
DeletedSinceRecorded ==
    /\ subject.cooked.type # "None"
    /\ RecordedOfThisTarget
    /\ OnDiskHandler.kind \in {"File", "Folder"}
    /\ ExistsFor(OnDiskHandler, OnDiskPath, taken.disk)
    /\ Lookup(disk, OnDiskPath).kind = "absent"

\* C12 as stated: once the file or folder is deleted, compute_fingerprint
\* returns None and need_rebuild given the earlier fingerprint returns True,
\* for File, Folder and a Deferred target bound to one.
C12_DeletedTargetHasNoFingerprint ==
    DeletedSinceRecorded =>
        /\ last.op = "compute_fingerprint" => last.fp = NoneFingerprint
        /\ (last.op = "need_rebuild" /\ last.fp = taken.fp) =>
               (last.status = "ok" /\ last.value = "True")

\* C12, amended: once the file or folder is deleted, need_rebuild given the
\* earlier fingerprint returns True; compute_fingerprint returns None for
\* File and Folder, and for a Deferred target bound to one the pickle of
\* (value, handler, None).
C12_DeletedTargetRebuilds ==
    DeletedSinceRecorded =>
        /\ last.op = "compute_fingerprint" =>
               last.fp = IF subject.handler.kind = "Deferred"
                         THEN Pickled(Triple(subject.cooked.boundValue,
                                             subject.cooked.boundHandler, NoInner))
                         ELSE NoneFingerprint
        /\ (last.op = "need_rebuild" /\ last.fp = taken.fp) =>
               (last.status = "ok" /\ last.value = "True")

\* C12's case: a deferred target bound to a file that clean has deleted is
\* fingerprinted again.
C12_Witness ==
    /\ DeletedSinceRecorded
    /\ subject.handler = DeferredHandler
    /\ subject.cooked.boundHandler.kind = "File"
    /\ taken.fp.obj.fp # NoInner
    /\ last.op = "compute_fingerprint"
    /\ last.fp.tag = "pickle"

\* A File target was fingerprinted while its path held a regular file.
FileRecorded ==
    /\ subject.handler.kind = "File"
    /\ taken.valid
    /\ Lookup(taken.disk, subject.cooked.value).kind = "file"

\* The file differs from the recorded one in what the handler tracks: a
\* stat field, or under stat+checksum its content.
TrackedStateDiffers ==
    LET was == Lookup(taken.disk, subject.cooked.value)
        now == Lookup(disk, subject.cooked.value)
    IN /\ now.kind = "file"
       /\ \/ was.stats # now.stats
          \/ subject.handler.strategy = "stat+checksum" /\ was.content # now.content

\* C13 as stated: on an unchanged file compute_fingerprint returns the
\* recorded fingerprint again and need_rebuild given it returns False; a
\* change of a tracked stat field, or under stat+checksum of the content,
\* gives another fingerprint.
C13_FileFingerprintDeterministic ==
    FileRecorded =>
        /\ disk = taken.disk =>
              /\ last.op = "compute_fingerprint" => last.fp = taken.fp
              /\ (last.op = "need_rebuild" /\ last.fp = taken.fp) =>
                     (last.status = "ok" /\ last.value = "False")
        /\ (TrackedStateDiffers /\ last.op = "compute_fingerprint") => last.fp # taken.fp

\* C13, amended: the same, need_rebuild and the change of fingerprint being
\* said of a file the handler could fingerprint (under stat+checksum, one
\* open() is not refused on); an unchanged file it could not gives None again.
C13_ReadableFileFingerprintDeterministic ==
    FileRecorded =>
        /\ disk = taken.disk =>
              /\ last.op = "compute_fingerprint" => last.fp = taken.fp
              /\ (last.op = "need_rebuild" /\ last.fp = taken.fp
                    /\ taken.fp # NoneFingerprint) =>
                     (last.status = "ok" /\ last.value = "False")
        /\ (TrackedStateDiffers /\ last.op = "compute_fingerprint"
              /\ taken.fp # NoneFingerprint) => last.fp # taken.fp
        /\ taken.fp = NoneFingerprint <=>
              (subject.handler.strategy = "stat+checksum"
                 /\ ~Lookup(taken.disk, subject.cooked.value).readable)

\* C13's case: need_rebuild is given the fingerprint recorded of a file that
\* has not changed since.
C13_Witness ==
    /\ FileRecorded
    /\ subject.handler = FileHandler
    /\ disk = taken.disk
    /\ last.op = "need_rebuild" /\ last.fp = taken.fp
    /\ last.value = "False"

\* C14: for a Virtual target compute_fingerprint returns None and
\* need_rebuild returns True, whatever previous fingerprint it is given and
\* whatever builds came before.
C14_VirtualAlwaysRebuilds ==
    subject.handler.kind = "Virtual" =>
        /\ last.op = "compute_fingerprint" => last.fp = NoneFingerprint
        /\ last.op = "need_rebuild" => (last.status = "ok" /\ last.value = "True")

\* C14's case: a Virtual target whose fingerprint an earlier build recorded
\* is asked need_rebuild with None.
C14_Witness ==
    /\ subject.handler = VirtualHandler
    /\ taken.valid
    /\ last.op = "need_rebuild" /\ last.fp = NoneFingerprint
    /\ last.value = "True"

\* The build recorded the fingerprint of a deferred target bound to a File
\* handler.
DeferredRecordedFile ==
    /\ subject.handler.kind = "Deferred"
    /\ taken.valid
    /\ taken.fp.tag = "pickle"
    /\ taken.fp.obj.handler.kind = "File"

\* C15 as stated: cooking the identity again with the recorded fingerprint
\* gives a target bound to the same value and a handler of the same class
\* and attributes, and need_rebuild given that fingerprint returns False
\* while the bound file is unchanged.
C15_BindingSurvives ==
    DeferredRecordedFile =>
        /\ (last.op = "cook" /\ last.fp = taken.fp) =>
              /\ last.status = "ok"
              /\ subject.cooked.bound
              /\ subject.cooked.boundValue = taken.fp.obj.value
              /\ Reduce(subject.cooked.boundHandler) = taken.fp.obj.handler
        /\ (last.op = "need_rebuild" /\ last.fp = taken.fp
              /\ RecordedOfThisTarget /\ disk = taken.disk) =>
               (last.status = "ok" /\ last.value = "False")

\* C15, amended: the same, need_rebuild returning False while the bound
\* path holds the unchanged regular file the File handler fingerprinted (the
\* third member of the recorded triple is not None).
C15_BindingSurvivesForFingerprintedFile ==
    DeferredRecordedFile =>
        /\ (last.op = "cook" /\ last.fp = taken.fp) =>
              /\ last.status = "ok"
              /\ subject.cooked.bound
              /\ subject.cooked.boundValue = taken.fp.obj.value
              /\ Reduce(subject.cooked.boundHandler) = taken.fp.obj.handler
        /\ (last.op = "need_rebuild" /\ last.fp = taken.fp
              /\ RecordedOfThisTarget /\ disk = taken.disk
              /\ taken.fp.obj.fp # NoInner) =>
               (last.status = "ok" /\ last.value = "False")

\* C15's case: a target that cook bound again from the recorded fingerprint
\* (its handler is the instance pickle built) is asked need_rebuild.
C15_Witness ==
    /\ DeferredRecordedFile
    /\ RecordedOfThisTarget /\ disk = taken.disk
    /\ subject.cooked.boundHandler = Rebuilt(Reduce(FileHandler))
    /\ last.op = "need_rebuild" /\ last.fp = taken.fp
    /\ last.value = "False"

\* What C16 says of one resolve call, from the target before it, the
\* arguments, and the target after it.
ResolveBindsOnce ==
    last.op = "resolve" =>
        /\ last.before.bound => last.status = "IsengardRunError"
        /\ last.argValue.type # TARGET_TYPE(last.argHandler) =>
               last.status = "IsengardRunError"
        /\ last.status # "ok" => subject.cooked = last.before
        /\ (~last.before.bound /\ last.argValue.type = TARGET_TYPE(last.argHandler)) =>
              /\ last.status = "ok"
              /\ subject.cooked = [last.before EXCEPT !.bound = TRUE,
                                                      !.boundValue = last.argValue,
                                                      !.boundHandler = last.argHandler]

\* C16: a DeferredTarget starts unbound; a resolve on an unbound target with
\* a value of the handler's type binds it to that pair; every resolve on a
\* bound target raises IsengardRunError; a resolve that raises leaves the
\* target as it was; and no call on a bound target (any but the cook that
\* makes a new target) changes its pair.
C16_BoundAtMostOnce ==
    /\ []ResolveBindsOnce
    /\ []((subject.handler.kind = "Deferred" /\ last.op = "cook" /\ last.fp = NoneFingerprint)
             => (last.status = "ok" /\ ~subject.cooked.bound))
    /\ [][(subject.cooked.bound /\ last'.op # "cook") => subject'.cooked = subject.cooked]_vars

\* C16's case: resolve on a bound target, with a value of the handler's type,
\* has raised and left the pair alone.
C16_Witness ==
    /\ last.op = "resolve"
    /\ last.before.bound
    /\ last.argValue.type = TARGET_TYPE(last.argHandler)
    /\ last.argHandler # last.before.boundHandler
    /\ last.status = "IsengardRunError"
    /\ subject.cooked = last.before

\* A previous fingerprint that is bytes but no stored (value, handler,
\* fingerprint) triple: bytes pickle cannot load, the pickle of another
\* object, or a triple whose value is not of its handler's type.
NotAStoredTriple(fp) ==
    \/ fp.tag \in {"empty", "garbage", "digest"}
    \/ fp.tag = "pickle" /\ fp.obj.tag # "triple"
    \/ fp.tag = "pickle" /\ fp.obj.tag = "triple"
          /\ fp.obj.value.type # TARGET_TYPE(fp.obj.handler)

\* C17: DeferredTargetHandler.cook given a previous fingerprint that is no
\* stored triple raises nothing and returns an unbound target.
C17_CookToleratesAnyFingerprint ==
    (subject.handler.kind = "Deferred" /\ last.op = "cook" /\ NotAStoredTriple(last.fp)) =>
        /\ last.status = "ok"
        /\ subject.cooked.type = "DeferredTarget" /\ ~subject.cooked.bound

\* The build's target is a deferred target no rule or cook has bound.
UnboundDeferred ==
    /\ subject.handler.kind = "Deferred"
    /\ subject.cooked.type = "DeferredTarget"
    /\ ~subject.cooked.bound

\* C18: on an unbound deferred target clean raises nothing and leaves the
\* disk as it is, compute_fingerprint returns None, need_rebuild returns True
\* whatever previous fingerprint it is given, and none of the three changes
\* the target.
C18_UnboundDeferredIsInert ==
    /\ [](UnboundDeferred =>
            /\ last.op = "clean" => (last.status = "ok" /\ ~last.changed)
            /\ last.op = "compute_fingerprint" => last.fp = NoneFingerprint
            /\ last.op = "need_rebuild" => (last.status = "ok" /\ last.value = "True"))
    /\ [][(UnboundDeferred /\ last'.op \in {"clean", "compute_fingerprint", "need_rebuild"})
             => (subject' = subject /\ disk' = disk)]_vars

\* C18's case: need_rebuild on an unbound deferred target, given the pickle
\* of a triple an earlier build recorded, while the path holds a file.
C18_Witness ==
    /\ UnboundDeferred
    /\ Lookup(disk, <<"/", "p", "/", "a">>).kind = "file"
    /\ taken.valid /\ taken.fp.tag = "pickle"
    /\ last.op = "need_rebuild" /\ last.fp = taken.fp
    /\ last.value = "True"

\* The path holds the other kind: a directory for a File target, a regular
\* file for a Folder target.
WrongKindOnDisk ==
    \/ subject.handler.kind = "File" /\ Lookup(disk, subject.cooked.value).kind = "dir"
    \/ subject.handler.kind = "Folder" /\ Lookup(disk, subject.cooked.value).kind = "file"

\* C19: when the path holds the other kind, compute_fingerprint returns None
\* and need_rebuild returns True whatever previous fingerprint it is given.
C19_WrongKindRebuilds ==
    WrongKindOnDisk =>
        /\ last.op = "compute_fingerprint" => last.fp = NoneFingerprint
        /\ last.op = "need_rebuild" => (last.status = "ok" /\ last.value = "True")

\* need_rebuild of a File handler has just been given bytes while the path
\* holds a regular file.
FileRebuildAsked ==
    /\ subject.handler.kind = "File"
    /\ Lookup(disk, subject.cooked.value).kind = "file"
    /\ last.op = "need_rebuild" /\ last.fp # NoneFingerprint

\* C20: under stat+checksum need_rebuild returns True when the content is
\* not the one fingerprinted, the stat fields being the same or not, and
\* False only when the stat digest and the content digest both equal those
\* of the previous fingerprint; under stat it returns True exactly when the
\* stat digest differs.
C20_ChecksumClosesStatFalseNegatives ==
    FileRebuildAsked =>
        LET now == Lookup(disk, subject.cooked.value)
            was == Lookup(taken.disk, subject.cooked.value)
            statMatches == First32(last.fp) = MetaDigest(now.stats)
            contentMatches == Rest32(last.fp) = ContentDigest(now.content)
        IN /\ last.status = "ok" /\ last.value \in {"True", "False"}
           /\ subject.handler.strategy = "stat+checksum" =>
                 /\ (FileRecorded /\ last.fp = taken.fp /\ was.content # now.content) =>
                        last.value = "True"
                 /\ last.value = "False" => (statMatches /\ contentMatches)
                 /\ (statMatches /\ contentMatches /\ now.readable) => last.value = "False"
           /\ subject.handler.strategy = "stat" => (last.value = "False" <=> statMatches)

\* C20's case: under stat+checksum the content changed and no stat field
\* did, and need_rebuild is given the fingerprint recorded before.
C20_Witness ==
    /\ FileRebuildAsked /\ FileRecorded
    /\ subject.handler = FileHandler
    /\ last.fp = taken.fp
    /\ Lookup(disk, subject.cooked.value).stats = Lookup(taken.disk, subject.cooked.value).stats
    /\ Lookup(disk, subject.cooked.value).content # Lookup(taken.disk, subject.cooked.value).content
    /\ Lookup(disk, subject.cooked.value).readable
    /\ last.value = "True"

\* C21: FileTargetHandler.need_rebuild returns what the inherited
\* need_rebuild would, compute_fingerprint(cooked) != previous_fingerprint,
\* whatever the path holds and whatever previous fingerprint it is given.
C21_FileOverrideIsTheDefault ==
    (subject.handler.kind = "File" /\ last.op = "need_rebuild") =>
        /\ last.status = "ok"
        /\ last.value = BaseNeedRebuild(subject.handler, subject.cooked, last.fp, disk).value

(***************************************************************************)
(* Properties of the store's connections and failures (SpecStore)          *)
(***************************************************************************)

\* C22: the only connection open is the one of a running with-block: once
\* the with-body has returned or raised, or init_or_reset_db has raised,
\* no connection is open.
C22_EveryConnectionClosed ==
    /\ db.open => openCons = 1
    /\ ~db.open => openCons = 0

\* init_or_reset_db has just run its destroy-and-recreate branch: the first
\* connect and the version read raised nothing, and the version read was
\* not DB_VERSION.
ResetEntered ==
    /\ outcome.op = "connect"
    /\ ~outcome.matched
    /\ outcome.failed \notin {"open", "version"}

\* init_or_reset_db has raised IsengardDBError and DB.connect yielded no store.
StoreIOError == outcome.status = "IsengardDBError" /\ ~db.open

\* C23: a backing file that cannot be opened or created, an unlink that is
\* refused, and a second connect or a schema creation that fails each make
\* init_or_reset_db raise IsengardDBError and return no store; an unlink
\* that finds the file already gone is passed over and the reset goes on.
C23_FileFailuresAreStoreErrors ==
    outcome.op = "connect" =>
        /\ file.kind = "unopenable" => StoreIOError
        /\ (ResetEntered /\ outcome.env.unlink = "denied") => StoreIOError
        /\ (ResetEntered /\ outcome.env.unlink # "denied" /\ outcome.env.recreate # "ok") =>
               StoreIOError
        /\ (ResetEntered /\ outcome.env.unlink # "denied" /\ outcome.env.recreate = "ok") =>
               (outcome.status = "ok" /\ outcome.reset /\ db.open /\ file = FreshStore)
        /\ outcome.status = "IsengardDBError" =>
               (~db.open /\ outcome.failed \in {"open", "delete", "recreate"})

\* C23's case: the unlink of an incompatible store is refused.
C23_Witness ==
    /\ ResetEntered
    /\ outcome.env.unlink = "denied"
    /\ StoreIOError
    /\ outcome.failed = "delete"

====
